---- MODULE Spec2Model ----
(***************************************************************************)
(* Model of the price-comparison service: search_prices (app/main.py)      *)
(* validates a request, gets candidate URLs from get_search_urls and calls *)
(* fetch_prices (app/scraper.py), which fans one scrape_site task out per  *)
(* candidate, gathers, filters, de-duplicates, sorts and truncates.        *)
(* A Python str is a sequence of one-character strings, None and the JSON  *)
(* values are tagged records, a float is a tagged exact decimal.           *)
(***************************************************************************)
EXTENDS Integers, Sequences, FiniteSets, TLC

\* -------------------------------------------------------------------------
\* Python values
\* -------------------------------------------------------------------------

\* None, and a str value s (a sequence of characters)
None == [t |-> "null"]

Str(s) == [t |-> "str", v |-> s]

IsNone(x) == x.t = "null"

IsStr(x) == x.t = "str"

\* JSON values as json.loads builds them: null, str, number (kept with its
\* str() text), bool, list, object (a function from key to value)
JNum(s) == [t |-> "num", v |-> s]

JBool(b) == [t |-> "bool", v |-> b]

JList(s) == [t |-> "list", v |-> s]

JObj(f) == [t |-> "obj", v |-> f]

\* a local variable: Body with v bound to a value
With(v, Body(_)) == Body(v)

Digits == {"0", "1", "2", "3", "4", "5", "6", "7", "8", "9"}

LowerLetters == <<"a", "b", "c", "d", "e", "f", "g", "h", "i", "j", "k", "l", "m",
                  "n", "o", "p", "q", "r", "s", "t", "u", "v", "w", "x", "y", "z">>

UpperLetters == <<"A", "B", "C", "D", "E", "F", "G", "H", "I", "J", "K", "L", "M",
                  "N", "O", "P", "Q", "R", "S", "T", "U", "V", "W", "X", "Y", "Z">>

Range(s) == {s[i] : i \in DOMAIN s}

IsDigit(c) == c \in Digits

\* str.isspace for the characters of the model's alphabet
IsSpace(c) == c \in {" ", "\t", "\n"}

\* a word character of the re module (\w): letter, digit or underscore; the
\* yuan character "<yuan>" is a letter, the other currency signs are not
IsWord(c) ==
    c \in Digits \/ c \in Range(LowerLetters) \/ c \in Range(UpperLetters) \/ c \in {"_", "<yuan>"}

LowerChar(c) ==
    IF c \in Range(UpperLetters)
    THEN LowerLetters[CHOOSE i \in DOMAIN UpperLetters : UpperLetters[i] = c]
    ELSE c

\* str.lower()
Lower(s) == [i \in DOMAIN s |-> LowerChar(s[i])]

\* s[a:b] with 1-based inclusive bounds, empty when a > b
Slice(s, a, b) == IF a > b THEN <<>> ELSE SubSeq(s, a, b)

\* s[:n]
Prefix(s, n) == IF Len(s) <= n THEN s ELSE SubSeq(s, 1, n)

\* s starts with p at position i (1-based)
MatchAt(s, p, i) ==
    /\ i >= 1
    /\ i + Len(p) - 1 <= Len(s)
    /\ \A j \in 1..Len(p) : s[i + j - 1] = p[j]

\* p in s
Contains(s, p) == \E i \in 1..(Len(s) + 1) : MatchAt(s, p, i)

\* ''.join(s.split()): s without its whitespace characters
RECURSIVE RemoveSpace(_)
RemoveSpace(s) ==
    IF s = <<>> THEN <<>>
    ELSE IF IsSpace(Head(s)) THEN RemoveSpace(Tail(s))
    ELSE <<Head(s)>> \o RemoveSpace(Tail(s))

\* s.strip()
RECURSIVE LStrip(_)
LStrip(s) == IF s # <<>> /\ IsSpace(Head(s)) THEN LStrip(Tail(s)) ELSE s

RECURSIVE RStrip(_)
RStrip(s) == IF s # <<>> /\ IsSpace(s[Len(s)]) THEN RStrip(SubSeq(s, 1, Len(s) - 1)) ELSE s

Strip(s) == RStrip(LStrip(s))

\* set(s.split()): the set of maximal whitespace-free words of s
Tokens(s) ==
    { Slice(s, a, b) : <<a, b>> \in
        { w \in (1..Len(s)) \X (1..Len(s)) :
            /\ w[1] <= w[2]
            /\ \A k \in w[1]..w[2] : ~IsSpace(s[k])
            /\ (w[1] = 1 \/ IsSpace(s[w[1] - 1]))
            /\ (w[2] = Len(s) \/ IsSpace(s[w[2] + 1])) } }

\* -------------------------------------------------------------------------
\* float(): the numeric value of a price text
\* -------------------------------------------------------------------------

\* A float is a decimal n/d (d a power of ten), nan, inf (n = 1) or -inf
\* (n = -1); "err" stands for the ValueError float() raises.
FNum(n, d) == [k |-> "num", n |-> n, d |-> d]

FNaN == [k |-> "nan", n |-> 0, d |-> 1]

FInf(sgn) == [k |-> "inf", n |-> sgn, d |-> 1]

FErr == [k |-> "err", n |-> 0, d |-> 1]

DigitVal(c) == CHOOSE v \in 0..9 : <<"0", "1", "2", "3", "4", "5", "6", "7", "8", "9">>[v + 1] = c

RECURSIVE DecVal(_)
DecVal(s) == IF s = <<>> THEN 0 ELSE 10 * DecVal(SubSeq(s, 1, Len(s) - 1)) + DigitVal(s[Len(s)])

RECURSIVE Pow10(_)
Pow10(n) == IF n = 0 THEN 1 ELSE 10 * Pow10(n - 1)

\* float(s) for texts without exponent and underscore forms: surrounding
\* whitespace is ignored, then an optional sign, then nan, inf, infinity
\* (any case) or decimal digits with at most one point
PyFloat(s) ==
    With(Strip(s), LAMBDA t :
    With(IF t # <<>> /\ t[1] = "-" THEN -1 ELSE 1, LAMBDA sgn :
    With(IF t # <<>> /\ t[1] \in {"+", "-"} THEN Tail(t) ELSE t, LAMBDA b :
    With(Lower(b), LAMBDA lb :
    With({i \in DOMAIN b : b[i] = "."}, LAMBDA dots :
    With(IF dots = {} THEN Len(b) + 1 ELSE CHOOSE i \in dots : TRUE, LAMBDA dot :
    With(Slice(b, 1, dot - 1), LAMBDA ip :
    With(Slice(b, dot + 1, Len(b)), LAMBDA fp :
        IF lb = <<"n", "a", "n">> THEN FNaN
        ELSE IF lb = <<"i", "n", "f">> \/ lb = <<"i", "n", "f", "i", "n", "i", "t", "y">> THEN FInf(sgn)
        ELSE IF /\ Cardinality(dots) <= 1
                /\ \A i \in DOMAIN b : IsDigit(b[i]) \/ b[i] = "."
                /\ Len(ip) + Len(fp) >= 1
             THEN FNum(sgn * DecVal(ip \o fp), Pow10(Len(fp)))
        ELSE FErr))))))))

\* a < b and a == b of two floats (every comparison with nan is false)
FloatLT(a, b) ==
    CASE a.k = "nan" \/ b.k = "nan" -> FALSE
      [] a.k = "inf" /\ b.k = "inf" -> a.n < b.n
      [] a.k = "inf" -> a.n < 0
      [] b.k = "inf" -> b.n > 0
      [] OTHER -> a.n * b.d < b.n * a.d

FloatEq(a, b) ==
    CASE a.k = "nan" \/ b.k = "nan" -> FALSE
      [] a.k = "inf" \/ b.k = "inf" -> a.k = b.k /\ a.n = b.n
      [] OTHER -> a.n * b.d = b.n * a.d

FloatLE(a, b) == FloatLT(a, b) \/ FloatEq(a, b)

\* math.isfinite(a) and a >= 0
FiniteNonNeg(a) == a.k = "num" /\ a.n >= 0

\* -------------------------------------------------------------------------
\* get_product_similarity
\* -------------------------------------------------------------------------

\* The score is the fraction n/d.
Score(n, d) == [n |-> n, d |-> d]

\* a similarity whose bonus counts the digit-containing query tokens that
\* are tokens of the product name
SimilarityByTokens(query, product_name) ==
    With(Lower(query), LAMBDA query_lower :
    With(Lower(product_name), LAMBDA product_lower :
    With(Tokens(query_lower), LAMBDA query_tokens :
    With(Cardinality(query_tokens \cap Tokens(product_lower)), LAMBDA matches :
    With(Cardinality({t \in query_tokens \cap Tokens(product_lower) : \E i \in DOMAIN t : IsDigit(t[i])}),
         LAMBDA important_matches :
    With(Cardinality(query_tokens), LAMBDA nq :
    With(10 * matches + 3 * important_matches * nq, LAMBDA sum :
        IF product_name = <<>> THEN Score(0, 1)
        ELSE IF Contains(product_lower, query_lower) THEN Score(1, 1)
        ELSE IF query_tokens = {} THEN Score(0, 1)
        ELSE IF sum >= 10 * nq THEN Score(1, 1)
        ELSE Score(sum, 10 * nq))))))))

get_product_similarity(query, product_name) ==
    With(Lower(query), LAMBDA query_lower :
    With(Lower(product_name), LAMBDA product_lower :
    With(Tokens(query_lower), LAMBDA query_tokens :
    With(Cardinality(query_tokens \cap Tokens(product_lower)), LAMBDA matches :
    With({t \in query_tokens : \E i \in DOMAIN t : IsDigit(t[i])}, LAMBDA important_tokens :
    With(Cardinality({t \in important_tokens : Contains(product_lower, t)}), LAMBDA important_matches :
    With(Cardinality(query_tokens), LAMBDA nq :
    \* base_score + importance_bonus = matches/nq + 3*important_matches/10
    With(10 * matches + 3 * important_matches * nq, LAMBDA sum :
        IF product_name = <<>> THEN Score(0, 1)
        ELSE IF Contains(product_lower, query_lower) THEN Score(1, 1)
        ELSE IF query_tokens = {} THEN Score(0, 1)
        ELSE IF sum >= 10 * nq THEN Score(1, 1)
        ELSE Score(sum, 10 * nq)))))))))

\* the acceptance threshold of scrape_site, 0.3 = 3/10
ThresholdNum == 3

ThresholdDen == 10

\* a threshold every score passes
AlwaysMeets(sc) == TRUE

\* similarity >= 0.3
MeetsThreshold(sc) == sc.n * ThresholdDen >= ThresholdNum * sc.d

\* -------------------------------------------------------------------------
\* extract_price_from_text
\* -------------------------------------------------------------------------

\* The non-ASCII currency signs are single characters of the alphabet,
\* written "<rupee>", "<pound>", "<euro>", "<yen>", "<yuan>".

\* currency_patterns, in the dictionary's insertion order
currency_patterns ==
    << <<(<<"$">>), (<<"U", "S", "D">>)>>,
       <<(<<"<rupee>">>), (<<"I", "N", "R">>)>>,
       <<(<<"<pound>">>), (<<"G", "B", "P">>)>>,
       <<(<<"<euro>">>), (<<"E", "U", "R">>)>>,
       <<(<<"<yen>">>), (<<"J", "P", "Y">>)>>,
       <<(<<"C", "$">>), (<<"C", "A", "D">>)>>,
       <<(<<"A", "$">>), (<<"A", "U", "D">>)>>,
       <<(<<"<yuan>">>), (<<"C", "N", "Y">>)>>,
       <<(<<"U", "S", "D">>), (<<"U", "S", "D">>)>>,
       <<(<<"I", "N", "R">>), (<<"I", "N", "R">>)>> >>

\* the literal p matches at position i under re.IGNORECASE
MatchAtCI(s, p, i) == MatchAt(Lower(s), Lower(p), i)

\* first position at or after i that holds no whitespace (the greedy \s*)
RECURSIVE SkipSpace(_, _)
SkipSpace(s, i) == IF i <= Len(s) /\ IsSpace(s[i]) THEN SkipSpace(s, i + 1) ELSE i

\* last position of the maximal run of [0-9,] starting at i (i - 1: none)
RECURSIVE RunEnd(_, _)
RunEnd(s, i) == IF i <= Len(s) /\ (IsDigit(s[i]) \/ s[i] = ",") THEN RunEnd(s, i + 1) ELSE i - 1

\* (?:\.[0-9]{2}) matches right after position e
HasCents(s, e) == e + 3 <= Len(s) /\ s[e + 1] = "." /\ IsDigit(s[e + 2]) /\ IsDigit(s[e + 3])

\* end of the greedy group ([0-9,]+(?:\.[0-9]{2})?) starting at j, 0: no match
NumEnd(s, j) ==
    With(RunEnd(s, j), LAMBDA e :
        IF e < j THEN 0 ELSE IF HasCents(s, e) THEN e + 3 ELSE e)

\* position right after the currency marker of pattern k (1..4) matched at
\* position i, 0 when no marker of the pattern matches there
MarkerEnd(s, k, i) ==
    CASE k = 1 ->
            IF MatchAt(s, <<"$">>, i) THEN i + 1
            ELSE IF MatchAtCI(s, <<"u", "s">>, i) /\ MatchAt(s, <<"$">>, SkipSpace(s, i + 2))
                 THEN SkipSpace(s, i + 2) + 1
            ELSE IF MatchAtCI(s, <<"u", "s", "d">>, i) THEN i + 3
            ELSE 0
      [] k = 2 ->
            IF MatchAt(s, <<"<rupee>">>, i) THEN i + 1
            ELSE IF MatchAtCI(s, <<"r", "s">>, i)
                 THEN (IF MatchAt(s, <<".">>, i + 2) THEN i + 3 ELSE i + 2)
            ELSE IF MatchAtCI(s, <<"i", "n", "r">>, i) THEN i + 3
            ELSE 0
      [] k = 3 ->
            IF MatchAt(s, <<"<pound>">>, i) THEN i + 1
            ELSE IF MatchAtCI(s, <<"g", "b", "p">>, i) THEN i + 3
            ELSE 0
      [] k = 4 ->
            IF MatchAt(s, <<"<euro>">>, i) THEN i + 1
            ELSE IF MatchAtCI(s, <<"e", "u", "r">>, i) THEN i + 3
            ELSE 0

\* the currency codes of the fifth pattern
TrailingCodes ==
    { <<"u", "s", "d">>, <<"e", "u", "r">>, <<"g", "b", "p">>, <<"i", "n", "r">>,
      <<"j", "p", "y">>, <<"c", "a", "d">>, <<"a", "u", "d">>, <<"c", "n", "y">> }

\* \b at the gap before position i (between s[i-1] and s[i])
Boundary(s, i) ==
    (i - 1 >= 1 /\ i - 1 <= Len(s) /\ IsWord(s[i - 1])) # (i >= 1 /\ i <= Len(s) /\ IsWord(s[i]))

\* s[i..i+n-1] are n digits
DigitsAt(s, i, n) == i + n - 1 <= Len(s) /\ \A j \in i..(i + n - 1) : IsDigit(s[j])

\* number of (?:,[0-9]{3}) groups that match consecutively from position i
RECURSIVE GroupsAt(_, _)
GroupsAt(s, i) ==
    IF i <= Len(s) /\ s[i] = "," /\ DigitsAt(s, i + 1, 3) THEN 1 + GroupsAt(s, i + 4) ELSE 0

\* The group bounds <<a, b>> of the sixth pattern matched at position i, or
\* <<>>: the regex engine tries the longest digit head first, then the most
\* thousands groups, then the cents, and backtracks until \b holds.
GenericAt(s, i) ==
    \* <<digits of the head, thousands groups, cents>> of the matches at i
    With({ w \in (1..3) \X (0..Len(s)) \X (0..1) :
             /\ DigitsAt(s, i, w[1])
             /\ w[2] <= GroupsAt(s, i + w[1])
             /\ (w[3] = 1 => HasCents(s, i + w[1] + 4 * w[2] - 1))
             /\ Boundary(s, i + w[1] + 4 * w[2] + 3 * w[3]) }, LAMBDA ok :
        IF ~Boundary(s, i) \/ ok = {} THEN <<>>
        ELSE With(CHOOSE v \in ok : \A w \in ok :
                      \/ w = v
                      \/ v[1] > w[1]
                      \/ v[1] = w[1] /\ v[2] > w[2]
                      \/ v[1] = w[1] /\ v[2] = w[2] /\ v[3] > w[3], LAMBDA best :
                 <<i, i + best[1] + 4 * best[2] + 3 * best[3] - 1>>))

\* The group bounds <<a, b>> of pattern k matched with its start at
\* position i, or <<>>.
PatternAt(s, k, i) ==
    CASE k \in 1..4 ->
            With(MarkerEnd(s, k, i), LAMBDA m :
                IF m = 0 THEN <<>>
                ELSE With(SkipSpace(s, m), LAMBDA j :
                     With(NumEnd(s, j), LAMBDA e :
                         IF e = 0 THEN <<>> ELSE <<j, e>>)))
      [] k = 5 ->
            With(NumEnd(s, i), LAMBDA e :
                IF e # 0 /\ \E c \in TrailingCodes : MatchAtCI(s, c, SkipSpace(s, e + 1))
                THEN <<i, e>> ELSE <<>>)
      [] k = 6 -> GenericAt(s, i)

\* re.search(patterns[k], text, re.IGNORECASE): group 1 of the leftmost match
Search(s, k) ==
    With({i \in 1..Len(s) : PatternAt(s, k, i) # <<>>}, LAMBDA hits :
        IF hits = {} THEN <<>>
        ELSE PatternAt(s, k, CHOOSE i \in hits : \A j \in hits : i <= j))

\* s.replace(',', '')
RECURSIVE RemoveCommas(_)
RemoveCommas(s) ==
    IF s = <<>> THEN <<>>
    ELSE IF Head(s) = "," THEN RemoveCommas(Tail(s))
    ELSE <<Head(s)>> \o RemoveCommas(Tail(s))

\* the code of the first symbol of currency_patterns found in the text,
\* 'USD' when there is none
CurrencyOf(s) ==
    With({n \in DOMAIN currency_patterns : Contains(s, currency_patterns[n][1])}, LAMBDA found :
        IF found = {} THEN <<"U", "S", "D">>
        ELSE currency_patterns[CHOOSE n \in found : \A m \in found : n <= m][2])

\* extract_price_from_text: None, or the pair as [price, currency]
NoPrice == [t |-> "null", price |-> <<>>, currency |-> <<>>]

extract_price_from_text(text) ==
    IF text = <<>> THEN NoPrice
    ELSE With({k \in 1..6 : Search(text, k) # <<>>}, LAMBDA hit :
        IF hit = {} THEN NoPrice
        ELSE With(Search(text, CHOOSE n \in hit : \A m \in hit : n <= m), LAMBDA g :
                 [t |-> "pair", price |-> RemoveCommas(SubSeq(text, g[1], g[2])),
                  currency |-> CurrencyOf(text)]))

\* -------------------------------------------------------------------------
\* Pages and the extraction strategies
\* -------------------------------------------------------------------------

\* A page is what BeautifulSoup's queries return on the parsed response
\* text:
\*   ld              the <script type="application/ld+json"> blocks in document
\*                   order, each [raw, val]: raw = "none" (script.string is
\*                   None), "invalid" (not JSON) or "ok" with the value val
\*   og_title, price_amount, price_currency, tw_label, tw_data
\*                   the content of the meta tag, None when the tag is absent
\*   amz_title       text of the Amazon title element, None when absent
\*   amz_prices      texts of the Amazon price elements, in selector order
\*   names           texts of the first match of each name selector, in order
\*   prices          per price selector, the texts of its matches
\*   data_price      the data-price attribute values, in document order

\* the fields of a product_data dict; availability is None when the key is
\* absent (the default of ProductResult.availability)
Rec(link, price, currency, productName, availability) ==
    [t |-> "rec", link |-> link, price |-> price, currency |-> currency,
     productName |-> productName, availability |-> availability]

\* a strategy that found nothing, and one that raised
NoRec == [t |-> "null", link |-> None, price |-> None, currency |-> None,
          productName |-> None, availability |-> None]

Raised == [t |-> "raise", link |-> None, price |-> None, currency |-> None,
           productName |-> None, availability |-> None]

USD == <<"U", "S", "D">>

\* bool(x) of a JSON value
Truthy(x) ==
    CASE x.t = "null" -> FALSE
      [] x.t = "str" -> x.v # <<>>
      [] x.t = "num" -> PyFloat(x.v).n # 0
      [] x.t = "bool" -> x.v
      [] x.t = "list" -> x.v # <<>>
      [] x.t = "obj" -> DOMAIN x.v # {}

\* str(x) of a JSON value; the text of a list or an object is bracketed and
\* never numeric
PyStr(x) ==
    CASE x.t = "null" -> <<"N", "o", "n", "e">>
      [] x.t = "str" -> x.v
      [] x.t = "num" -> x.v
      [] x.t = "bool" -> IF x.v THEN <<"T", "r", "u", "e">> ELSE <<"F", "a", "l", "s", "e">>
      [] x.t = "list" -> <<"[", ".", ".", ".", "]">>
      [] x.t = "obj" -> <<"{", ".", ".", ".", "}">>

\* d.get(key, default) of a JSON object
Get(d, key, default) == IF key \in DOMAIN d.v THEN d.v[key] ELSE default

\* a or b
Or(a, b) == IF Truthy(a) THEN a ELSE b

EmptyObj == JObj(<<>>)

\* One iteration of the loop of extract_from_json_ld: "skip" (no record,
\* including the exceptions the loop catches), a record, or "raise" for the
\* AttributeError the loop does not catch.
Skip == [t |-> "skip", link |-> None, price |-> None, currency |-> None,
         productName |-> None, availability |-> None]

\* x == 'Product'
IsProductType(x) == x.t = "str" /\ x.v = <<"P", "r", "o", "d", "u", "c", "t">>

JsonLdBlock(block, url) ==
    IF block.raw # "ok" THEN Skip
    ELSE With(IF block.val.t = "list"
              THEN (IF block.val.v # <<>> THEN block.val.v[1] ELSE None)
              ELSE block.val, LAMBDA data :
        IF ~Truthy(data) THEN Skip
        ELSE IF data.t # "obj" THEN Raised
        ELSE IF ~IsProductType(Get(data, "@type", None)) THEN Skip
        ELSE With(Get(data, "offers", EmptyObj), LAMBDA offers0 :
             With(IF offers0.t = "list"
                  THEN (IF offers0.v # <<>> THEN offers0.v[1] ELSE EmptyObj)
                  ELSE offers0, LAMBDA offers :
                 IF offers.t # "obj" THEN Raised
                 ELSE With(Or(Get(offers, "price", None), Get(offers, "lowPrice", None)), LAMBDA price :
                      With(Get(data, "name", Str(<<>>)), LAMBDA name :
                          IF ~Truthy(price) THEN Skip
                          ELSE IF name.t # "str" THEN Raised
                          ELSE Rec(Get(data, "url", Str(url)), Str(PyStr(price)),
                                   Get(offers, "priceCurrency", Str(USD)), Str(Strip(name.v)),
                                   Get(offers, "availability", Str(<<>>))))))))

RECURSIVE JsonLdFrom(_, _, _)
JsonLdFrom(scripts, i, url) ==
    IF i > Len(scripts) THEN NoRec
    ELSE With(JsonLdBlock(scripts[i], url), LAMBDA r :
             IF r.t = "skip" THEN JsonLdFrom(scripts, i + 1, url) ELSE r)

extract_from_json_ld(soup, url) == JsonLdFrom(soup.ld, 1, url)

\* 'price' in label.get('content', '').lower()
IsPriceLabel(label) == ~IsNone(label) /\ Contains(Lower(label.v), <<"p", "r", "i", "c", "e">>)

\* the twitter:label/twitter:data pairs 1 and 2 of extract_from_meta_tags:
\* the lexed price of the first pair that has one, or NoPrice
TwitterPrice(soup) ==
    With([i \in 1..2 |-> IF IsPriceLabel(soup.tw_label[i]) /\ ~IsNone(soup.tw_data[i])
                         THEN extract_price_from_text(soup.tw_data[i].v)
                         ELSE NoPrice], LAMBDA lexed :
        IF lexed[1].t = "pair" THEN lexed[1] ELSE lexed[2])

extract_from_meta_tags(soup, url) ==
    With(IF Truthy(soup.price_amount) THEN NoPrice ELSE TwitterPrice(soup), LAMBDA tw :
    With(IF tw.t = "pair" THEN Str(tw.price) ELSE soup.price_amount, LAMBDA price :
    With(IF tw.t = "pair" THEN Str(tw.currency) ELSE soup.price_currency, LAMBDA currency :
        IF Truthy(soup.og_title) /\ Truthy(price)
        THEN Rec(Str(url), price, Or(currency, Str(USD)), soup.og_title, None)
        ELSE NoRec)))

\* re.search(r'[\d,]+\.?\d*', text): the matched text, None without a match
RECURSIVE DigitsEnd(_, _)
DigitsEnd(s, i) == IF i <= Len(s) /\ IsDigit(s[i]) THEN DigitsEnd(s, i + 1) ELSE i - 1

AmazonPriceMatch(text) ==
    With({i \in 1..Len(text) : IsDigit(text[i]) \/ text[i] = ","}, LAMBDA starts :
        IF starts = {} THEN None
        ELSE With(CHOOSE a \in starts : \A b \in starts : a <= b, LAMBDA i :
             With(RunEnd(text, i), LAMBDA e :
             With(IF e + 1 <= Len(text) /\ text[e + 1] = "." THEN DigitsEnd(text, e + 2) ELSE e, LAMBDA f :
                 Str(SubSeq(text, i, f))))))

\* the price of the first Amazon price element whose text has a match
RECURSIVE AmazonPriceFrom(_, _)
AmazonPriceFrom(texts, i) ==
    IF i > Len(texts) THEN None
    ELSE With(AmazonPriceMatch(texts[i]), LAMBDA m :
             IF IsNone(m) THEN AmazonPriceFrom(texts, i + 1) ELSE Str(RemoveCommas(m.v)))

extract_amazon_data(soup, url) ==
    With(AmazonPriceFrom(soup.amz_prices, 1), LAMBDA price :
        IF Truthy(soup.amz_title) /\ Truthy(price)
        THEN Rec(Str(url), price, Str(USD), soup.amz_title, None)
        ELSE NoRec)

\* the first name text that is longer than 5 characters
RECURSIVE NameFrom(_, _)
NameFrom(texts, i) ==
    IF i > Len(texts) THEN None
    ELSE IF Len(texts[i]) > 5 THEN Str(texts[i])
    ELSE NameFrom(texts, i + 1)

\* the lexed price of the first element of one selector that has one
RECURSIVE FirstLexed(_, _)
FirstLexed(texts, i) ==
    IF i > Len(texts) THEN NoPrice
    ELSE With(extract_price_from_text(texts[i]), LAMBDA d :
             IF d.t = "pair" THEN d ELSE FirstLexed(texts, i + 1))

\* The selector loop of extract_from_html_patterns from selector i on, with
\* price_found/currency_found so far in acc: a selector's first lexed price
\* is taken, and the loop ends once price_found is non-empty.
RECURSIVE PriceLoop(_, _, _)
PriceLoop(prices, i, acc) ==
    IF i > Len(prices) THEN acc
    ELSE With(FirstLexed(prices[i], 1), LAMBDA d :
         With(IF d.t = "pair" THEN d ELSE acc, LAMBDA acc2 :
             IF acc2.t = "pair" /\ acc2.price # <<>> THEN acc2
             ELSE PriceLoop(prices, i + 1, acc2)))

\* the loop over the elements with a data-price attribute: the first
\* non-empty value, else the last value seen, else what was found before
RECURSIVE DataPriceFrom(_, _, _)
DataPriceFrom(attrs, i, found) ==
    IF i > Len(attrs) THEN found
    ELSE IF attrs[i] # <<>> THEN attrs[i]
    ELSE DataPriceFrom(attrs, i + 1, attrs[i])

extract_from_html_patterns(soup, url, query) ==
    With(NameFrom(soup.names, 1), LAMBDA productName :
    With(PriceLoop(soup.prices, 1, NoPrice), LAMBDA lexed :
    With(IF lexed.t = "pair" THEN lexed.price ELSE <<>>, LAMBDA price0 :
    With(IF lexed.t = "pair" THEN Str(lexed.currency) ELSE None, LAMBDA currency_found :
    With(IF price0 = <<>> THEN DataPriceFrom(soup.data_price, 1, price0) ELSE price0, LAMBDA price_found :
        IF Truthy(productName) /\ price_found # <<>>
        THEN Rec(Str(url), Str(price_found), Or(currency_found, Str(USD)), productName, None)
        ELSE NoRec)))))

\* -------------------------------------------------------------------------
\* scrape_site
\* -------------------------------------------------------------------------

\* CURRENCY_MAP of search_engines.py
CURRENCY_MAP ==
    << <<(<<"U", "S">>), (<<"U", "S", "D">>)>>, <<(<<"I", "N">>), (<<"I", "N", "R">>)>>,
       <<(<<"U", "K">>), (<<"G", "B", "P">>)>>, <<(<<"C", "A">>), (<<"C", "A", "D">>)>>,
       <<(<<"A", "U">>), (<<"A", "U", "D">>)>>, <<(<<"D", "E">>), (<<"E", "U", "R">>)>>,
       <<(<<"F", "R">>), (<<"E", "U", "R">>)>>, <<(<<"J", "P">>), (<<"J", "P", "Y">>)>>,
       <<(<<"C", "N">>), (<<"C", "N", "Y">>)>>, <<(<<"B", "R">>), (<<"B", "R", "L">>)>>,
       <<(<<"M", "X">>), (<<"M", "X", "N">>)>>, <<(<<"E", "S">>), (<<"E", "U", "R">>)>>,
       <<(<<"I", "T">>), (<<"E", "U", "R">>)>>, <<(<<"N", "L">>), (<<"E", "U", "R">>)>>,
       <<(<<"S", "E">>), (<<"S", "E", "K">>)>>, <<(<<"S", "G">>), (<<"S", "G", "D">>)>>,
       <<(<<"A", "E">>), (<<"A", "E", "D">>)>>, <<(<<"S", "A">>), (<<"S", "A", "R">>)>>,
       <<(<<"Z", "A">>), (<<"Z", "A", "R">>)>>, <<(<<"K", "R">>), (<<"K", "R", "W">>)>> >>

UpperChar(c) ==
    IF c \in Range(LowerLetters)
    THEN UpperLetters[CHOOSE i \in DOMAIN LowerLetters : LowerLetters[i] = c]
    ELSE c

\* str.upper()
Upper(s) == [i \in DOMAIN s |-> UpperChar(s[i])]

\* get_currency: CURRENCY_MAP.get(country.upper(), "USD")
get_currency(country) ==
    With({n \in DOMAIN CURRENCY_MAP : CURRENCY_MAP[n][1] = Upper(country)}, LAMBDA hit :
        IF hit = {} THEN USD ELSE CURRENCY_MAP[CHOOSE n \in hit : TRUE][2])

\* urlparse(url).netloc: the text between "scheme://" and the next "/", "?"
\* or "#"
Netloc(url) ==
    With({i \in DOMAIN url : url[i] = ":"}, LAMBDA colons :
    With(IF colons = {} THEN 0 ELSE CHOOSE i \in colons : \A j \in colons : i <= j, LAMBDA c :
    With({i \in (c + 3)..Len(url) : url[i] \in {"/", "?", "#"}}, LAMBDA stops :
    With(IF stops = {} THEN Len(url) ELSE (CHOOSE i \in stops : \A j \in stops : i <= j) - 1, LAMBDA e :
        IF c # 0 /\ MatchAt(url, <<"/", "/">>, c + 1) THEN Slice(url, c + 3, e) ELSE <<>>))))

\* the result of a task that contributes nothing
NoResult == [t |-> "null"]

\* the slot of a task that has not resolved yet
Pending == [t |-> "pending"]

\* ProductResult(**product_data): link, price, currency and productName are
\* required str fields, source and availability are Optional[str]; the
\* constructor raises a ValidationError otherwise
Validates(product_data, site_name) ==
    /\ IsStr(product_data.link)
    /\ IsStr(product_data.price)
    /\ IsStr(product_data.currency)
    /\ IsStr(product_data.productName)
    /\ IsStr(site_name) \/ IsNone(site_name)
    /\ IsStr(product_data.availability) \/ IsNone(product_data.availability)

ProductResult(product_data, site_name) ==
    [t |-> "result", link |-> product_data.link.v, price |-> product_data.price.v,
     currency |-> product_data.currency.v, productName |-> product_data.productName.v,
     source |-> site_name, availability |-> product_data.availability]

\* 'amazon' in urlparse(url).netloc.lower()
IsAmazon(url) == Contains(Lower(Netloc(url)), <<"a", "m", "a", "z", "o", "n">>)

\* the strategies scrape_site can try on a page of url, in the order of its
\* code; the site-specific one is tried on Amazon domains only
Strategies(url) ==
    IF IsAmazon(url) THEN <<"json_ld", "meta_tags", "amazon", "html_patterns">>
    ELSE <<"json_ld", "meta_tags", "html_patterns">>

\* what the strategy s gives on a page
StrategyOut(s, soup, url, query) ==
    CASE s = "json_ld" -> extract_from_json_ld(soup, url)
      [] s = "meta_tags" -> extract_from_meta_tags(soup, url)
      [] s = "amazon" -> extract_amazon_data(soup, url)
      [] s = "html_patterns" -> extract_from_html_patterns(soup, url, query)

\* the strategies scrape_site runs on a page: each "if not product_data"
\* lets the next one run, a record or an exception ends the steps
RECURSIVE RunFrom(_, _, _, _, _)
RunFrom(order, k, soup, url, query) ==
    IF k >= Len(order) \/ StrategyOut(order[k], soup, url, query).t # "null" THEN Prefix(order, k)
    ELSE RunFrom(order, k + 1, soup, url, query)

StrategiesRun(soup, url, query) == RunFrom(Strategies(url), 1, soup, url, query)

\* extraction steps that try the meta tags before the JSON-LD blocks
CascadeMetaFirst(soup, url, query) ==
    With(extract_from_meta_tags(soup, url), LAMBDA r1 :
    With(IF r1.t = "null" THEN extract_from_json_ld(soup, url) ELSE r1, LAMBDA r2 :
    With(IF r2.t = "null" /\ IsAmazon(url) THEN extract_amazon_data(soup, url) ELSE r2, LAMBDA r3 :
        IF r3.t = "null" THEN extract_from_html_patterns(soup, url, query) ELSE r3)))

\* the four extraction steps of scrape_site, in order: NoRec, a record, or
\* Raised when a strategy raised
Cascade(soup, url, query) ==
    With(extract_from_json_ld(soup, url), LAMBDA r1 :
    With(IF r1.t = "null" THEN extract_from_meta_tags(soup, url) ELSE r1, LAMBDA r2 :
    With(IF r2.t = "null" /\ IsAmazon(url) THEN extract_amazon_data(soup, url) ELSE r2, LAMBDA r3 :
        IF r3.t = "null" THEN extract_from_html_patterns(soup, url, query) ELSE r3)))

\* a scrape_site that leaves the currency of the record as it is
BackfillSkipped(product_data, country) == product_data

\* product_data['currency'] = product_data.get('currency') or get_currency(country)
Backfill(product_data, country) ==
    [product_data EXCEPT !.currency = Or(product_data.currency, Str(get_currency(country)))]

\* The status code scrape_site accepts
HTTP_OK == 200

\* scrape_site after the GET resolved with the outcome resp (a timeout, a
\* transport error, or a response with a status and a page): the
\* ProductResult, or NoResult for None
scrape_site(resp, url, query, site_name, country) ==
    IF resp.kind # "response" THEN NoResult
    ELSE IF resp.status # HTTP_OK THEN NoResult
    ELSE With(Cascade(resp.page, url, query), LAMBDA product_data :
             IF product_data.t # "rec" THEN NoResult
             ELSE IF ~MeetsThreshold(get_product_similarity(query, product_data.productName.v))
                  THEN NoResult
             ELSE With(Backfill(product_data, country), LAMBDA filled :
                      IF ~Validates(filled, site_name) THEN NoResult
                      ELSE ProductResult(filled, site_name)))

\* -------------------------------------------------------------------------
\* fetch_prices: filter, de-duplicate, sort, truncate
\* -------------------------------------------------------------------------

\* float(result.price)
PriceOf(r) == PyFloat(r.price)

\* ''.join(result.productName.lower().split())[:30]
DedupPrefix == 30

\* a key that keeps the whole normalized name
NameKeyWhole(r) == RemoveSpace(Lower(r.productName))

NameKey(r) == Prefix(RemoveSpace(Lower(r.productName)), DedupPrefix)

\* two dedup keys are equal as set members
SameKey(a, b) == NameKey(a) = NameKey(b) /\ FloatEq(PriceOf(a), PriceOf(b))

\* valid_results = [res for res in results if res]
RECURSIVE Valid(_)
Valid(res) ==
    IF res = <<>> THEN <<>>
    ELSE IF Head(res).t = "result" THEN <<Head(res)>> \o Valid(Tail(res))
    ELSE Valid(Tail(res))

\* the de-duplication loop: a result is appended unless its key was seen
RECURSIVE Dedup(_, _)
Dedup(valid, unique) ==
    IF valid = <<>> THEN unique
    ELSE IF \E i \in DOMAIN unique : SameKey(unique[i], Head(valid))
         THEN Dedup(Tail(valid), unique)
    ELSE Dedup(Tail(valid), Append(unique, Head(valid)))

\* list.sort(key=lambda x: float(x.price)) as CPython runs it on a list of
\* fewer than 64 elements: the initial run is found (and reversed when it is
\* strictly descending), the remaining elements are inserted by binary
\* search; the only comparison is key(x) < key(y).
ISLT(x, y) == FloatLT(PriceOf(x), PriceOf(y))

RECURSIVE RunLen(_, _, _)
RunLen(a, i, descending) ==
    IF i > Len(a) THEN i - 1
    ELSE IF ISLT(a[i], a[i - 1]) = descending THEN RunLen(a, i + 1, descending)
    ELSE i - 1

RECURSIVE Reverse(_)
Reverse(s) == IF s = <<>> THEN <<>> ELSE Append(Reverse(Tail(s)), Head(s))

RECURSIVE BinSearch(_, _, _, _)
BinSearch(a, pivot, l, r) ==
    IF l >= r THEN l
    ELSE With(l + ((r - l) \div 2), LAMBDA p :
             IF ISLT(pivot, a[p]) THEN BinSearch(a, pivot, l, p)
             ELSE BinSearch(a, pivot, p + 1, r))

RECURSIVE BinarySort(_, _)
BinarySort(a, start) ==
    IF start > Len(a) THEN a
    ELSE With(BinSearch(a, a[start], 1, start), LAMBDA l :
             BinarySort(Slice(a, 1, l - 1) \o <<a[start]>> \o Slice(a, l, start - 1)
                          \o Slice(a, start + 1, Len(a)),
                        start + 1))

list_sort(a) ==
    IF Len(a) < 2 THEN a
    ELSE With(ISLT(a[2], a[1]), LAMBDA descending :
         With(RunLen(a, 3, descending), LAMBDA n :
             BinarySort((IF descending THEN Reverse(Slice(a, 1, n)) ELSE Slice(a, 1, n))
                          \o Slice(a, n + 1, Len(a)),
                        n + 1)))

\* the size of the returned list
MaxResults == 25

\* What fetch_prices does with the gathered results: it raises the
\* ValueError of float() on the first price that is no number, else it
\* returns the first MaxResults results of the sorted unique list.
Aggregate(res) ==
    With(Valid(res), LAMBDA valid_results :
        IF \E i \in DOMAIN valid_results : PriceOf(valid_results[i]).k = "err"
        THEN [st |-> "raised", value |-> <<>>]
        ELSE [st |-> "returned",
              value |-> Prefix(list_sort(Dedup(valid_results, <<>>)), MaxResults)])

\* -------------------------------------------------------------------------
\* The inputs: requests, candidate sites and what the web answers
\* -------------------------------------------------------------------------

\* longest candidate list whose tasks are explored in every completion order
MaxCands == 3

\* number of fetch_prices calls made on the same input
MaxCalls == 2

\* length of the candidate lists of the tie family
TieLen == 7

\* how far the lists of the cap family exceed MaxResults
CapExtra == 2

\* the (query, country) pairs of the requests
Requests ==
    << [query |-> <<"g", "x", " ", "5">>, country |-> <<"I", "N">>],
       [query |-> <<"G", "x">>, country |-> <<"u", "s">>] >>

\* the arguments fetch_prices is called with: those above, and those a
\* /search request passes on (an empty query, another country)
AllRequests ==
    Requests \o << [query |-> <<>>, country |-> <<"I", "N">>],
                   [query |-> <<"g", "x", " ", "5">>, country |-> <<"U", "S">>] >>

EmptyPage ==
    [ld |-> <<>>, og_title |-> None, price_amount |-> None, price_currency |-> None,
     tw_label |-> <<None, None>>, tw_data |-> <<None, None>>,
     amz_title |-> None, amz_prices |-> <<>>,
     names |-> <<>>, prices |-> <<>>, data_price |-> <<>>]

\* a page with an og:title and a product:price:amount meta tag
MetaPage(title, amount) == [EmptyPage EXCEPT !.og_title = Str(title), !.price_amount = Str(amount)]

\* a page with one JSON-LD block (after a block that is not JSON) holding obj
LdPage(obj) == [EmptyPage EXCEPT !.ld = <<[raw |-> "invalid", val |-> None], [raw |-> "ok", val |-> obj]>>]

ProductStr == Str(<<"P", "r", "o", "d", "u", "c", "t">>)

Timeout == [kind |-> "timeout", status |-> 0, page |-> EmptyPage]

TransportError == [kind |-> "error", status |-> 0, page |-> EmptyPage]

Response(status, page) == [kind |-> "response", status |-> status, page |-> page]

Host(h) == <<"h", "t", "t", "p", ":", "/", "/">> \o h \o <<"/", "p">>

\* query.replace(" ", "+")
PlusForSpace(s) == [i \in DOMAIN s |-> IF s[i] = " " THEN "+" ELSE s[i]]

\* the search URL get_known_ecommerce_sites builds for a domain
KnownUrl(domain, search_query) ==
    <<"h", "t", "t", "p", "s", ":", "/", "/", "w", "w", "w", ".">> \o domain \o
    (IF Contains(domain, <<"a", "m", "a", "z", "o", "n">>) THEN <<"/", "s", "?", "k", "=">>
     ELSE IF Contains(domain, <<"f", "l", "i", "p", "k", "a", "r", "t">>) THEN <<"/", "s", "e", "a", "r", "c", "h", "?", "q", "=">>
     ELSE IF Contains(domain, <<"w", "a", "l", "m", "a", "r", "t">>) THEN <<"/", "s", "e", "a", "r", "c", "h", "?", "q", "=">>
     ELSE IF Contains(domain, <<"b", "e", "s", "t", "b", "u", "y">>) THEN <<"/", "s", "i", "t", "e", "/", "s", "e", "a", "r", "c", "h", "p", "a", "g", "e", ".", "j", "s", "p", "?", "s", "t", "=">>
     ELSE <<"/", "s", "e", "a", "r", "c", "h", "?", "q", "=">>) \o search_query

\* a known e-commerce site as a candidate, with the outcome of a GET of its
\* search URL (the URL is the one built for the first request)
Known(name, domain, resp) ==
    [name |-> Str(name), url |-> KnownUrl(domain, PlusForSpace(Requests[1].query)), resp |-> resp]

\* thirty characters once lower-cased and stripped of whitespace
LongName == <<"g", "x", " ", "5">> \o [i \in 1..27 |-> "a"]

\* The fixture sites: name, url and the outcome of a GET of the url.
Sites ==
    << \* 1: the GET times out
       [name |-> Str(<<"s", "l", "o", "w">>), url |-> Host(<<"s", "l", "o", "w">>), resp |-> Timeout],
       \* 2: the GET fails in the transport
       [name |-> Str(<<"d", "o", "w", "n">>), url |-> Host(<<"d", "o", "w", "n">>), resp |-> TransportError],
       \* 3: 404 with a page that would extract
       [name |-> Str(<<"g", "o", "n", "e">>), url |-> Host(<<"g", "o", "n", "e">>),
        resp |-> Response(404, MetaPage(<<"g", "x", " ", "5">>, <<"1">>))],
       \* 4: JSON-LD product with price 10 and an empty priceCurrency
       [name |-> Str(<<"l", "d">>), url |-> Host(<<"l", "d">>),
        resp |-> Response(200, LdPage(JObj(
            ("@type" :> ProductStr) @@ ("name" :> Str(<<" ", "G", "x", " ", "5", " ">>)) @@
            ("offers" :> JObj(("price" :> JNum(<<"1", "0">>)) @@ ("priceCurrency" :> Str(<<>>)))))))],
       \* 5: meta tags, a long name, price 10.0 in EUR
       [name |-> Str(<<"m", "e", "t", "a">>), url |-> Host(<<"m", "e", "t", "a">>),
        resp |-> Response(200, [MetaPage(LongName \o <<"b">>, <<"1", "0", ".", "0">>)
                                  EXCEPT !.price_currency = Str(<<"E", "U", "R">>)])],
       \* 6: generic patterns, the name of site 4 in another spelling, "$10.00"
       [name |-> Str(<<"h", "t", "m", "l">>), url |-> Host(<<"h", "t", "m", "l">>),
        resp |-> Response(200, [EmptyPage EXCEPT
            !.names = <<<<"H", "o", "m", "e">>, <<"G", "X", " ", " ", " ", "5">>>>,
            !.prices = << <<<<"S", "a", "l", "e">>>>, <<<<"f", "r", "o", "m", " ", "$", "1", "0", ".", "0", "0">>>> >>])],
       \* 7: meta tags with the price text "nan"
       [name |-> Str(<<"n", "a", "n">>), url |-> Host(<<"n", "a", "n">>),
        resp |-> Response(200, MetaPage(<<"g", "x", " ", "5", " ", "n">>, <<"n", "a", "n">>))],
       \* 8: meta tags with the price text "-5"
       [name |-> Str(<<"n", "e", "g">>), url |-> Host(<<"n", "e", "g">>),
        resp |-> Response(200, MetaPage(<<"g", "x", " ", "5", " ", "m">>, <<"-", "5">>))],
       \* 9: an Amazon page, price 7
       [name |-> Str(<<"a", "m", "z">>), url |-> Host(<<"a", "m", "a", "z", "o", "n", ".", "i", "n">>),
        resp |-> Response(200, [EmptyPage EXCEPT
            !.amz_title = Str(<<"G", "x", " ", "5", " ", "a", "m", "z">>), !.amz_prices = <<<<"o", "n", "l", "y">>, <<"7">>>>])],
       \* 10: generic patterns with a data-price attribute that is no number
       [name |-> Str(<<"a", "t", "t", "r">>), url |-> Host(<<"a", "t", "t", "r">>),
        resp |-> Response(200, [EmptyPage EXCEPT
            !.names = <<<<"g", "x", " ", "5", " ", "a", "t", "t", "r">>>>,
            !.prices = << <<<<>>, <<"c", "a", "l", "l">>>> >>,
            !.data_price = <<<<>>, <<"N", "/", "A">>>>])],
       \* 11: meta tags of an unrelated product
       [name |-> Str(<<"o", "t", "h", "e", "r">>), url |-> Host(<<"o", "t", "h", "e", "r">>),
        resp |-> Response(200, MetaPage(<<"p", "h", "o", "n", "e", " ", "x">>, <<"3">>))],
       \* 12: a page without product data
       [name |-> Str(<<"e", "m", "p", "t", "y">>), url |-> Host(<<"e", "m", "p", "t", "y">>), resp |-> Response(200, EmptyPage)],
       \* 13: JSON-LD product whose url is null
       [name |-> Str(<<"n", "o", "l", "i", "n", "k">>), url |-> Host(<<"n", "o", "l", "i", "n", "k">>),
        resp |-> Response(200, LdPage(JObj(
            ("@type" :> ProductStr) @@ ("name" :> Str(<<"g", "x", " ", "5", " ", "l">>)) @@ ("url" :> None) @@
            ("offers" :> JObj("price" :> JNum(<<"4">>))))))],
       \* 14: twitter meta tags, the long name of site 5 with another ending
       [name |-> Str(<<"t", "w">>), url |-> Host(<<"t", "w">>),
        resp |-> Response(200, [EmptyPage EXCEPT
            !.og_title = Str(LongName \o <<"c">>),
            !.tw_label = <<Str(<<"B", "r", "a", "n", "d">>), Str(<<"P", "r", "i", "c", "e">>)>>,
            !.tw_data = <<Str(<<"g", "x">>), Str(<<"<rupee>", "1", "0">>)>>])],
       \* 15: a JSON-LD product with price 8 and meta tags with price 9
       [name |-> Str(<<"b", "o", "t", "h">>), url |-> Host(<<"b", "o", "t", "h">>),
        resp |-> Response(200, [LdPage(JObj(
            ("@type" :> ProductStr) @@ ("name" :> Str(<<"g", "x", " ", "5", " ", "l", "d">>)) @@
            ("offers" :> JObj("price" :> JNum(<<"8">>)))))
            EXCEPT !.og_title = Str(<<"g", "x", " ", "5", " ", "o", "g">>), !.price_amount = Str(<<"9">>)])],
       \* 16: a JSON-LD product with a price and no name, and meta tags with
       \* a name and a price
       [name |-> Str(<<"n", "o", "n", "a", "m", "e">>), url |-> Host(<<"n", "o", "n", "a", "m", "e">>),
        resp |-> Response(200, [LdPage(JObj(
            ("@type" :> ProductStr) @@ ("offers" :> JObj("price" :> JNum(<<"6">>)))))
            EXCEPT !.og_title = Str(<<"g", "x", " ", "5", " ", "n", "n">>), !.price_amount = Str(<<"6">>)])],
       \* 17: a JSON-LD block whose JSON value is a string, and meta tags
       \* with a name and a price
       [name |-> Str(<<"s", "t", "r", "l", "d">>), url |-> Host(<<"s", "t", "r", "l", "d">>),
        resp |-> Response(200, [LdPage(Str(<<"x">>))
            EXCEPT !.og_title = Str(<<"g", "x", " ", "5", " ", "s", "t">>), !.price_amount = Str(<<"5">>)])],
       \* 18: an Amazon page with the Amazon elements (price 3) and the
       \* generic ones ("$4")
       [name |-> Str(<<"a", "z">>), url |-> Host(<<"a", "m", "a", "z", "o", "n", ".", "c", "o", "m">>),
        resp |-> Response(200, [EmptyPage EXCEPT
            !.amz_title = Str(<<"g", "x", " ", "5", " ", "a", "z">>), !.amz_prices = <<<<"3">>>>,
            !.names = <<<<"g", "x", " ", "5", " ", "h", "z">>>>, !.prices = << <<<<"$", "4">>>> >>])],
       \* 19: another shop with a JSON-LD product without a price, the
       \* Amazon elements (price 3) and the generic ones ("$4")
       [name |-> Str(<<"s", "h", "o", "p">>), url |-> Host(<<"s", "h", "o", "p">>),
        resp |-> Response(200, [LdPage(JObj(
            ("@type" :> ProductStr) @@ ("name" :> Str(<<"g", "x", " ", "5", " ", "s", "l">>))))
            EXCEPT !.amz_title = Str(<<"g", "x", " ", "5", " ", "s", "a">>), !.amz_prices = <<<<"3">>>>,
                   !.names = <<<<"g", "x", " ", "5", " ", "s", "h">>>>, !.prices = << <<<<"$", "4">>>> >>])],
       \* 20: a search result whose link is no absolute URL
       [name |-> Str(<<"r", "e", "l">>), url |-> <<"r", "e", "l">>, resp |-> TransportError],
       \* 21..27: the known e-commerce sites of IN
       Known(<<"A", "m", "a", "z", "o", "n", " ", "I", "n", "d", "i", "a">>, <<"a", "m", "a", "z", "o", "n", ".", "i", "n">>, Response(200, [EmptyPage EXCEPT !.amz_title = Str(<<"g", "x", " ", "5", " ", "i", "n">>), !.amz_prices = <<<<"7">>>>])),
       Known(<<"F", "l", "i", "p", "k", "a", "r", "t">>, <<"f", "l", "i", "p", "k", "a", "r", "t", ".", "c", "o", "m">>, Response(403, EmptyPage)),
       Known(<<"M", "y", "n", "t", "r", "a">>, <<"m", "y", "n", "t", "r", "a", ".", "c", "o", "m">>, Timeout),
       Known(<<"S", "n", "a", "p", "d", "e", "a", "l">>, <<"s", "n", "a", "p", "d", "e", "a", "l", ".", "c", "o", "m">>, Response(200, EmptyPage)),
       Known(<<"R", "e", "l", "i", "a", "n", "c", "e", " ", "D", "i", "g", "i", "t", "a", "l">>, <<"r", "e", "l", "i", "a", "n", "c", "e", "d", "i", "g", "i", "t", "a", "l", ".", "i", "n">>, Response(200, MetaPage(<<"g", "x", " ", "5", " ", "r", "d">>, <<"9">>))),
       Known(<<"C", "r", "o", "m", "a">>, <<"c", "r", "o", "m", "a", ".", "c", "o", "m">>, TransportError),
       Known(<<"T", "a", "t", "a", " ", "C", "L", "i", "Q">>, <<"t", "a", "t", "a", "c", "l", "i", "q", ".", "c", "o", "m">>, Response(200, EmptyPage)),
       \* 28..34: the known e-commerce sites of US, the default
       Known(<<"A", "m", "a", "z", "o", "n">>, <<"a", "m", "a", "z", "o", "n", ".", "c", "o", "m">>, Response(200, [EmptyPage EXCEPT !.amz_title = Str(<<"g", "x", " ", "5", " ", "u", "s">>), !.amz_prices = <<<<"7">>>>])),
       Known(<<"W", "a", "l", "m", "a", "r", "t">>, <<"w", "a", "l", "m", "a", "r", "t", ".", "c", "o", "m">>, Response(200, MetaPage(<<"g", "x", " ", "5", " ", "w", "m">>, <<"8">>))),
       Known(<<"B", "e", "s", "t", " ", "B", "u", "y">>, <<"b", "e", "s", "t", "b", "u", "y", ".", "c", "o", "m">>, Response(403, EmptyPage)),
       Known(<<"T", "a", "r", "g", "e", "t">>, <<"t", "a", "r", "g", "e", "t", ".", "c", "o", "m">>, Timeout),
       Known(<<"N", "e", "w", "e", "g", "g">>, <<"n", "e", "w", "e", "g", "g", ".", "c", "o", "m">>, Response(200, EmptyPage)),
       Known(<<"C", "o", "s", "t", "c", "o">>, <<"c", "o", "s", "t", "c", "o", ".", "c", "o", "m">>, TransportError),
       Known(<<"H", "o", "m", "e", " ", "D", "e", "p", "o", "t">>, <<"h", "o", "m", "e", "d", "e", "p", "o", "t", ".", "c", "o", "m">>, Response(200, EmptyPage)),
       \* 35: 203 (Non-Authoritative Information) with a page that would extract
       [name |-> Str(<<"p", "r", "o", "x", "y">>), url |-> Host(<<"p", "r", "o", "x", "y">>),
        resp |-> Response(203, MetaPage(<<"g", "x", " ", "5", " ", "p", "x">>, <<"5">>))] >>

\* The generated sites: site GenId(i, c) has the i-th name and the c-th price
\* text in its meta tags, so that long candidate lists can be built.
GenPrices == <<<<"1">>, <<"2">>, <<"3">>, <<"1", "0">>, <<"2", ".", "5">>, <<"n", "a", "n">>>>

GenNames == Len(LowerLetters)

GenId(i, c) == 100 + 10 * i + c

GenSite(id) ==
    With(<<"g", LowerLetters[(id - 100) \div 10]>>, LAMBDA tag :
        [name |-> Str(tag), url |-> Host(tag),
         resp |-> Response(200, MetaPage(<<"g", "x", " ", "5", " ", tag[2]>>, GenPrices[(id - 100) % 10]))])

\* the candidate {'name': ..., 'url': ...} with the given id and the outcome
\* of a GET of its url
Site(id) == IF id \in DOMAIN Sites THEN Sites[id] ELSE GenSite(id)

\* The fixture sites come in groups: the ways a fetch or a call can fail,
\* the pages that give no result, the results that share a key or a price,
\* the prices a result can have, the pages that more than one extraction
\* strategy applies to, and the status codes a page can come with.  A short
\* candidate list has at most MaxCands sites of one group.
SiteGroups ==
    {{1, 2, 4, 10}, {3, 11, 12, 13}, {4, 5, 6, 14}, {4, 7, 8, 9}, {5, 15, 16, 17}, {1, 6, 18, 19},
     {3, 4, 11, 35}}

ShortLists == UNION {[1..n -> G] : <<n, G>> \in (0..MaxCands) \X SiteGroups}

\* the tie family: TieLen generated sites with distinct names, each with the
\* price 1, 2 or nan
TieClasses == {1, 2, 6}

TieLists == {[i \in 1..TieLen |-> GenId(i, p[i])] : p \in [1..TieLen -> TieClasses]}

\* the cap family: around MaxResults generated sites; the prices follow the
\* pattern (i * v) % m, which includes nan when m = 6
CapLists ==
    {[i \in 1..n |-> GenId(((i - 1) % GenNames) + 1, ((i * v) % m) + 1)] :
        <<n, v, m>> \in ((MaxResults - 1)..(MaxResults + CapExtra)) \X {1, 5} \X {5, 6}}

\* -------------------------------------------------------------------------
\* The state machine of fetch_prices
\* -------------------------------------------------------------------------

VARIABLES
    req_query,    \* the query argument of the call
    req_country,  \* the country argument of the call
    search_urls,  \* the candidate list, as site ids
    pc,           \* "idle", "gather" (inside async with), "returned", "raised"
    client,       \* the httpx.AsyncClient: "none", "open", "closed"
    task,         \* per candidate: "created", "waiting" (GET sent), "done"
    results,      \* per candidate the value its task resolved with
    ret,          \* the outcome of the call: returned list or raised error
    calls,        \* number of calls completed
    first         \* the outcome of the first call

\* the state of one POST /search request (search_prices of app/main.py)
VARIABLES
    request,      \* the body of the request: country and query
    limit,        \* the limit parameter of the request
    sp,           \* where search_prices is: "none" (no request), "received",
                  \* "urls", "sleep", "fetch", "gather", "done"
    attempt,      \* the loop variable of the retry loop
    trace,        \* the calls made so far: get_search_urls, sleep,
                  \* fetch_prices, and the GET of each candidate
    response      \* the HTTP response, None until there is one

\* one application of a pure function: its arguments and its result
VARIABLES fn_arg, fn_out

\* the variables of the fetch_prices call
fvars == <<req_query, req_country, search_urls, pc, client, task, results, ret, calls, first>>

hvars == <<request, limit, sp, attempt, trace, response>>

pvars == <<fn_arg, fn_out>>

vars == <<fvars, hvars, pvars>>

NoOutcome == [st |-> "none", value |-> <<>>]

\* no body, and no response yet
NoBody == [country |-> None, query |-> None]

NoResponse == [status |-> 0, results |-> <<>>]

\* fetch_prices is called on its own, not by a /search request
NoRequest ==
    /\ request = NoBody
    /\ limit = 0
    /\ sp = "none"
    /\ attempt = 0
    /\ trace = <<>>
    /\ response = NoResponse

\* the arguments of an application and its result, before there is one
Args(f, a, b) == [fn |-> f, a |-> a, b |-> b]

NoValue == [done |-> FALSE, value |-> None]

\* no pure function is applied
NoFunction == fn_arg = Args("none", <<>>, <<>>) /\ fn_out = NoValue

N == Len(search_urls)

InitWith(lists) ==
    /\ \E r \in DOMAIN Requests :
        /\ req_query = Requests[r].query
        /\ req_country = Requests[r].country
    /\ search_urls \in lists
    /\ pc = "idle"
    /\ client = "none"
    /\ task = <<>>
    /\ results = <<>>
    /\ ret = NoOutcome
    /\ calls = 0
    /\ first = NoOutcome
    /\ NoRequest
    /\ NoFunction

Init == InitWith(ShortLists)

\* fetch_prices up to "await asyncio.gather(*tasks)": the client is opened
\* and one scrape_site coroutine is created per candidate
Call ==
    /\ pc # "gather"
    /\ calls < MaxCalls
    /\ pc' = "gather"
    /\ client' = "open"
    /\ task' = [i \in 1..N |-> "created"]
    /\ results' = [i \in 1..N |-> Pending]
    /\ ret' = NoOutcome
    /\ UNCHANGED <<req_query, req_country, search_urls, calls, first>>

\* scrape_site up to "await client.get(...)": the tasks take their first step
\* in creation order
Start(i) ==
    /\ pc = "gather"
    /\ task[i] = "created"
    /\ \A j \in 1..(i - 1) : task[j] # "created"
    /\ task' = [task EXCEPT ![i] = "waiting"]
    /\ UNCHANGED <<req_query, req_country, search_urls, pc, client, results, ret, calls, first>>

\* every site id of the candidate lists, in a fixed order: the fixture
\* sites, then the generated sites by name and price
AllSites ==
    [k \in 1..(Len(Sites) + GenNames * Len(GenPrices)) |->
        IF k <= Len(Sites) THEN k
        ELSE GenId(((k - Len(Sites) - 1) \div Len(GenPrices)) + 1,
                   ((k - Len(Sites) - 1) % Len(GenPrices)) + 1)]

\* position of a site id in AllSites
SiteIndex(id) ==
    IF id \in DOMAIN Sites THEN id
    ELSE Len(Sites) + (((id - 100) \div 10) - 1) * Len(GenPrices) + ((id - 100) % 10)

\* what scrape_site returns for request r and the sites AllSites[lo..hi]
\* once the GET resolved
RECURSIVE ScrapedFrom(_, _, _)
ScrapedFrom(r, lo, hi) ==
    IF lo = hi
    THEN <<scrape_site(Site(AllSites[lo]).resp, Site(AllSites[lo]).url, AllRequests[r].query,
                       Site(AllSites[lo]).name, AllRequests[r].country)>>
    ELSE ScrapedFrom(r, lo, (lo + hi) \div 2) \o ScrapedFrom(r, ((lo + hi) \div 2) + 1, hi)

\* the results of scrape_site, evaluated once per request and site
Scraped == [r \in DOMAIN AllRequests |-> ScrapedFrom(r, 1, Len(AllSites))]

\* the product_data of the extraction steps for request r and the sites
\* AllSites[lo..hi] (NoRec when the GET has no response)
RECURSIVE CascadedFrom(_, _, _)
CascadedFrom(r, lo, hi) ==
    IF lo = hi
    THEN <<IF Site(AllSites[lo]).resp.kind = "response"
           THEN Cascade(Site(AllSites[lo]).resp.page, Site(AllSites[lo]).url, AllRequests[r].query)
           ELSE NoRec>>
    ELSE CascadedFrom(r, lo, (lo + hi) \div 2) \o CascadedFrom(r, ((lo + hi) \div 2) + 1, hi)

Cascaded == [r \in DOMAIN AllRequests |-> CascadedFrom(r, 1, Len(AllSites))]

\* what each strategy gives on a page, and the strategies scrape_site runs
StepsOf(soup, url, query) ==
    [out |-> [s \in {"json_ld", "meta_tags", "amazon", "html_patterns"} |-> StrategyOut(s, soup, url, query)],
     ran |-> StrategiesRun(soup, url, query)]

\* the steps for request r and the pages of the sites AllSites[lo..hi]
RECURSIVE SteppedFrom(_, _, _)
SteppedFrom(r, lo, hi) ==
    IF lo = hi
    THEN <<StepsOf(Site(AllSites[lo]).resp.page, Site(AllSites[lo]).url, AllRequests[r].query)>>
    ELSE SteppedFrom(r, lo, (lo + hi) \div 2) \o SteppedFrom(r, ((lo + hi) \div 2) + 1, hi)

Stepped == [r \in DOMAIN AllRequests |-> SteppedFrom(r, 1, Len(AllSites))]

\* the index of the request the call was made with
Request ==
    CHOOSE r \in DOMAIN AllRequests : AllRequests[r].query = req_query /\ AllRequests[r].country = req_country

\* a gather that collects the values in the order the tasks resolve
GatherStoreInCompletionOrder(res, i, r) ==
    [res EXCEPT ![CHOOSE k \in DOMAIN res : res[k] = Pending /\ \A j \in 1..(k - 1) : res[j] # Pending] = r]

\* asyncio.gather keeps the value of task i at position i
GatherStore(res, i, r) == [res EXCEPT ![i] = r]

\* The GET of task i resolves and scrape_site runs to its return.  The
\* responses of a list of at most MaxCands candidates arrive in any order,
\* those of a longer list in the order of the list.
Resolve(i) ==
    /\ pc = "gather"
    /\ task[i] = "waiting"
    /\ N <= MaxCands \/ \A j \in 1..(i - 1) : task[j] = "done"
    /\ task' = [task EXCEPT ![i] = "done"]
    /\ results' = GatherStore(results, i, Scraped[Request][SiteIndex(search_urls[i])])
    /\ UNCHANGED <<req_query, req_country, search_urls, pc, client, ret, calls, first>>

\* a gather that resolves as soon as one task resolved with None; the
\* tasks still pending count as None
ReturnEarly ==
    /\ pc = "gather"
    /\ \E i \in 1..N : task[i] = "done" /\ results[i] = NoResult
    /\ client' = "closed"
    /\ ret' = Aggregate([i \in DOMAIN results |-> IF results[i] = Pending THEN NoResult ELSE results[i]])
    /\ pc' = ret'.st
    /\ first' = IF calls = 0 THEN ret' ELSE first
    /\ calls' = calls + 1
    /\ UNCHANGED <<req_query, req_country, search_urls, task, results>>

\* a fetch_prices that leaves its client open
ReturnLeavesOpen ==
    /\ pc = "gather"
    /\ \A i \in 1..N : task[i] = "done"
    /\ client' = client
    /\ ret' = Aggregate(results)
    /\ pc' = ret'.st
    /\ first' = IF calls = 0 THEN ret' ELSE first
    /\ calls' = calls + 1
    /\ UNCHANGED <<req_query, req_country, search_urls, task, results>>

\* gather resolves once every task has, the client is closed, and the rest
\* of fetch_prices runs: it returns the list or raises
Return ==
    /\ pc = "gather"
    /\ \A i \in 1..N : task[i] = "done"
    /\ client' = "closed"
    /\ ret' = Aggregate(results)
    /\ pc' = ret'.st
    /\ first' = IF calls = 0 THEN ret' ELSE first
    /\ calls' = calls + 1
    /\ UNCHANGED <<req_query, req_country, search_urls, task, results>>

Next ==
    \/ Call /\ UNCHANGED <<hvars, pvars>>
    \/ \E i \in 1..N : Start(i) /\ UNCHANGED <<hvars, pvars>>
    \/ \E i \in 1..N : Resolve(i) /\ UNCHANGED <<hvars, pvars>>
    \/ Return /\ UNCHANGED <<hvars, pvars>>

Spec == Init /\ [][Next]_vars

\* the same machine on the long candidate lists
InitLong == InitWith(TieLists \cup CapLists)

SpecLong == InitLong /\ [][Next]_vars

\* -------------------------------------------------------------------------
\* POST /search: search_prices of app/main.py, get_search_urls of
\* app/search_engines.py
\* -------------------------------------------------------------------------

valid_countries ==
    {<<"U", "S">>, <<"I", "N">>, <<"U", "K">>, <<"C", "A">>, <<"A", "U">>, <<"D", "E">>, <<"F", "R">>,
    <<"J", "P">>, <<"C", "N">>, <<"B", "R">>, <<"M", "X">>, <<"E", "S">>, <<"I", "T">>, <<"N", "L">>,
    <<"S", "E">>, <<"S", "G">>, <<"A", "E">>, <<"S", "A">>, <<"Z", "A">>, <<"K", "R">>}

max_retries == 2

\* s.split(c)
RECURSIVE SplitOn(_, _)
SplitOn(s, c) ==
    With({i \in DOMAIN s : s[i] = c}, LAMBDA at :
        IF at = {} THEN <<s>>
        ELSE With(CHOOSE i \in at : \A j \in at : i <= j, LAMBDA k :
                 <<Slice(s, 1, k - 1)>> \o SplitOn(Slice(s, k + 1, Len(s)), c)))

\* url.split('/')[2].lower(): the domain, or "raise" for the IndexError of
\* a URL with fewer than three parts
DomainOf(url) ==
    With(SplitOn(url, "/"), LAMBDA parts :
        IF Len(parts) < 3 THEN [t |-> "raise", v |-> <<>>] ELSE Str(Lower(parts[3])))

\* one loop of get_search_urls over the candidates cands[i..]: a candidate
\* joins all_urls unless its domain was seen
RECURSIVE AddUrls(_, _, _)
AddUrls(acc, cands, i) ==
    IF acc.st = "raise" \/ i > Len(cands) THEN acc
    ELSE With(DomainOf(Site(cands[i]).url), LAMBDA domain :
             AddUrls(IF domain.t = "raise" THEN [acc EXCEPT !.st = "raise"]
                     ELSE IF domain.v \in acc.seen_domains THEN acc
                     ELSE [st |-> "ok", all_urls |-> Append(acc.all_urls, cands[i]),
                           seen_domains |-> acc.seen_domains \cup {domain.v}],
                     cands, i + 1))

\* the candidates of the known e-commerce sites of a country, US by default
\* (the tables of UK, CA and AU are left out: no request below names them)
get_known_ecommerce_sites(country) ==
    IF country = <<"I", "N">> THEN [i \in 1..7 |-> 20 + i] ELSE [i \in 1..7 |-> 27 + i]

\* get_search_urls, given what search_google_shopping and
\* search_google_regular return: the list it returns, or "raise"
get_search_urls(country, shopping_urls, regular_urls) ==
    With(AddUrls([st |-> "ok", all_urls |-> <<>>, seen_domains |-> {}], shopping_urls, 1), LAMBDA a1 :
    With(IF a1.st = "ok" /\ Len(a1.all_urls) < 10 THEN AddUrls(a1, regular_urls, 1) ELSE a1, LAMBDA a2 :
    With(IF a2.st = "ok" /\ Len(a2.all_urls) < 15
         THEN AddUrls(a2, get_known_ecommerce_sites(country), 1) ELSE a2, LAMBDA a3 :
        [st |-> a3.st, urls |-> IF a3.st = "ok" THEN Prefix(a3.all_urls, 20) ELSE <<>>])))

\* what search_google_shopping can return (at most 15 results; nothing
\* when the API call fails) and what search_google_regular can
ShoppingResults ==
    {<<>>, <<4, 6>>, <<20>>, <<6, 20>>, [i \in 1..9 |-> GenId(i, 1)], [i \in 1..15 |-> GenId(i, (i % 5) + 1)]}

RegularResults == {<<>>, <<6, 9>>, <<9, 20>>, [i \in 1..12 |-> GenId(i + 9, 2)]}

\* the bodies of the requests: a valid one, one with an empty query, one
\* for another country, one with a country code that is not supported, one
\* without a query
HttpRequests ==
    {[country |-> Str(<<"I", "N">>), query |-> Str(<<"g", "x", " ", "5">>)],
     [country |-> Str(<<"I", "N">>), query |-> Str(<<>>)],
     [country |-> Str(<<"U", "S">>), query |-> Str(<<"g", "x", " ", "5">>)],
     [country |-> Str(<<"u", "s">>), query |-> Str(<<"G", "x">>)],
     [country |-> Str(<<"I", "N">>), query |-> None]}

\* the limit parameter: 10 by default, valid from 1 to 50
Limits == {0, 1, 10}

\* a call in the trace: its name, the attempt or the candidate it belongs to,
\* and how it ended
Event(op, i, end) == [op |-> op, i |-> i, end |-> end]

InitSearch ==
    /\ request \in HttpRequests
    /\ limit \in Limits
    /\ sp = "received"
    /\ attempt = 0
    /\ trace = <<>>
    /\ response = NoResponse
    /\ req_query = <<>>
    /\ req_country = <<>>
    /\ search_urls = <<>>
    /\ pc = "idle"
    /\ client = "none"
    /\ task = <<>>
    /\ results = <<>>
    /\ ret = NoOutcome
    /\ calls = 0
    /\ first = NoOutcome
    /\ NoFunction

\* the request is validated: by the framework against SearchRequest and
\* the bounds of limit (422), then the country code by search_prices (400)
Validate ==
    /\ sp = "received"
    /\ IF ~IsStr(request.country) \/ ~IsStr(request.query) \/ limit < 1 \/ limit > 50
       THEN sp' = "done" /\ response' = [status |-> 422, results |-> <<>>]
       ELSE IF request.country.v \notin valid_countries
       THEN sp' = "done" /\ response' = [status |-> 400, results |-> <<>>]
       ELSE sp' = "urls" /\ response' = response
    /\ UNCHANGED <<request, limit, attempt, trace, fvars, pvars>>

\* one pass of the retry loop with the outcome got of get_search_urls
AfterUrls(got) ==
    /\ trace' = Append(trace, Event("get_search_urls", attempt,
                                    IF got.st = "raise" THEN "raise" ELSE IF got.urls # <<>> THEN "urls" ELSE "empty"))
    /\ IF got.st = "raise"
       THEN /\ IF attempt = max_retries - 1
               THEN sp' = "done" /\ response' = [status |-> 500, results |-> <<>>]
               ELSE sp' = "sleep" /\ response' = response
            /\ UNCHANGED <<attempt, req_query, req_country, search_urls>>
       ELSE IF got.urls # <<>>
       THEN /\ sp' = "fetch"
            /\ search_urls' = got.urls
            /\ req_query' = request.query.v
            /\ req_country' = request.country.v
            /\ UNCHANGED <<attempt, response>>
       ELSE /\ IF attempt + 1 < max_retries
               THEN sp' = "urls" /\ attempt' = attempt + 1 /\ response' = response
               ELSE sp' = "done" /\ attempt' = attempt /\ response' = [status |-> 200, results |-> <<>>]
            /\ UNCHANGED <<req_query, req_country, search_urls>>
    /\ UNCHANGED <<request, limit, pc, client, task, results, ret, calls, first, pvars>>

\* await get_search_urls(request.country, request.query)
GetSearchUrls ==
    /\ sp = "urls"
    /\ \E shopping_urls \in ShoppingResults, regular_urls \in RegularResults :
          AfterUrls(get_search_urls(request.country.v, shopping_urls, regular_urls))

\* a retry loop that starts its next pass without a delay
SleepSkipped ==
    /\ sp = "sleep"
    /\ attempt' = attempt + 1
    /\ sp' = "urls"
    /\ UNCHANGED <<request, limit, trace, response, fvars, pvars>>

\* await asyncio.sleep(1), then the next pass of the loop
Sleep ==
    /\ sp = "sleep"
    /\ trace' = Append(trace, Event("sleep", attempt, ""))
    /\ attempt' = attempt + 1
    /\ sp' = "urls"
    /\ UNCHANGED <<request, limit, response, fvars, pvars>>

\* search_prices calls fetch_prices
FetchPrices ==
    /\ sp = "fetch"
    /\ Call
    /\ sp' = "gather"
    /\ trace' = Append(trace, Event("fetch_prices", 0, ""))
    /\ UNCHANGED <<request, limit, attempt, response, pvars>>

\* task i sends its GET
SendGet(i) ==
    /\ Start(i)
    /\ trace' = Append(trace, Event("GET", i, ""))
    /\ UNCHANGED <<request, limit, sp, attempt, response, pvars>>

\* fetch_prices returned or raised: the results are cut to limit and
\* answered, an exception is answered with status 500
Respond ==
    /\ sp = "gather"
    /\ pc \in {"returned", "raised"}
    /\ sp' = "done"
    /\ response' = IF pc = "raised" THEN [status |-> 500, results |-> <<>>]
                   ELSE [status |-> 200, results |-> Prefix(ret.value, limit)]
    /\ UNCHANGED <<request, limit, attempt, trace, fvars, pvars>>

NextSearch ==
    \/ Validate
    \/ GetSearchUrls
    \/ Sleep
    \/ FetchPrices
    \/ \E i \in 1..N : SendGet(i)
    \/ \E i \in 1..N : Resolve(i) /\ UNCHANGED <<hvars, pvars>>
    \/ Return /\ UNCHANGED <<hvars, pvars>>
    \/ Respond

SpecSearch == InitSearch /\ [][NextSearch]_vars

\* -------------------------------------------------------------------------
\* The pure functions: get_product_similarity with the threshold test of
\* scrape_site, and extract_price_from_text
\* -------------------------------------------------------------------------

\* longest query and product name, in characters
MaxText == 3

\* most parts of a price text
MaxParts == 3

\* the characters of the queries and of the product names
QueryChars == {"a", "1", " "}

NameChars == {"A", "b", "1", " "}

\* the parts a price text is made of
Vocabulary ==
    << <<"$">>,
       <<"<rupee>">>,
       <<"R", "s", ".">>,
       <<"E", "U", "R">>,
       <<"<pound>">>,
       <<" ">>,
       <<"4", "5", ",", "9", "9", "9">>,
       <<"1", "2", ".", "5", "0">>,
       <<"7">> >>

\* the strings over chars with at most n characters
Strings(chars, n) == UNION {[1..k -> chars] : k \in 0..n}

RECURSIVE Concat(_)
Concat(parts) == IF parts = <<>> THEN <<>> ELSE Head(parts) \o Concat(Tail(parts))

SimilarityArgs ==
    {Args("get_product_similarity", q, p) : <<q, p>> \in Strings(QueryChars, MaxText) \X Strings(NameChars, MaxText)}

LexArgs ==
    {Args("extract_price_from_text", Concat([i \in DOMAIN ps |-> Vocabulary[ps[i]]]), <<>>) :
        ps \in Strings(DOMAIN Vocabulary, MaxParts)}

InitPure ==
    /\ fn_arg \in SimilarityArgs \cup LexArgs
    /\ fn_out = NoValue
    /\ NoRequest
    /\ req_query = <<>>
    /\ req_country = <<>>
    /\ search_urls = <<>>
    /\ pc = "idle"
    /\ client = "none"
    /\ task = <<>>
    /\ results = <<>>
    /\ ret = NoOutcome
    /\ calls = 0
    /\ first = NoOutcome

\* similarity = get_product_similarity(query, product_data['productName'])
\* and the test "similarity < 0.3" of scrape_site
Similarity ==
    /\ fn_arg.fn = "get_product_similarity"
    /\ ~fn_out.done
    /\ fn_out' = [done |-> TRUE,
                  value |-> With(get_product_similarity(fn_arg.a, fn_arg.b), LAMBDA similarity :
                                [score |-> similarity, kept |-> MeetsThreshold(similarity)])]
    /\ UNCHANGED <<fn_arg, fvars, hvars>>

\* extract_price_from_text(text)
Lex ==
    /\ fn_arg.fn = "extract_price_from_text"
    /\ ~fn_out.done
    /\ fn_out' = [done |-> TRUE, value |-> extract_price_from_text(fn_arg.a)]
    /\ UNCHANGED <<fn_arg, fvars, hvars>>

NextPure ==
    \/ Similarity
    \/ Lex

SpecPure == InitPure /\ [][NextPure]_vars

\* -------------------------------------------------------------------------
\* Properties
\* -------------------------------------------------------------------------

Done == pc \in {"returned", "raised"}

Returned == pc = "returned"

\* the returned list
RS == ret.value

\* the outcome of the GET of candidate i, and the product_data the
\* extraction steps give on its page
Resp(i) == Site(search_urls[i]).resp

ProductData(i) == Cascaded[Request][SiteIndex(search_urls[i])]

\* candidate i resolved with a ProductResult
Succeeded(i) == results[i].t = "result"

\* position of the first candidate that resolved with r
FirstIdx(r) == CHOOSE i \in DOMAIN results : results[i] = r /\ \A j \in 1..(i - 1) : results[j] # r

\* r is an element of the returned list
InRS(r) == \E k \in DOMAIN RS : RS[k] = r

\* C1: fetch_prices never fails as a whole because of one candidate: whatever
\* the outcome of each candidate, the call raises no exception and returns a
\* list made of results of its candidates.
C1_NeverFailsAsAWhole ==
    Done => /\ pc = "returned"
            /\ \A k \in DOMAIN RS : \E i \in DOMAIN results : Succeeded(i) /\ results[i] = RS[k]

\* C2: a candidate whose fetch times out contributes nothing, every other
\* candidate that resolved with a result is in the returned list (up to
\* de-duplication and the cap), and the call returns normally.
C2_TimeoutIsolated ==
    (Done /\ \E i \in 1..N : Resp(i).kind = "timeout") =>
        /\ pc = "returned"
        /\ \A i \in 1..N : Resp(i).kind = "timeout" => ~Succeeded(i)
        /\ \A i \in 1..N : Succeeded(i) =>
              \/ InRS(results[i])
              \/ \E k \in DOMAIN RS : SameKey(RS[k], results[i])
              \/ Len(RS) = MaxResults

\* C3: every price of a returned list parses as a finite number that is not
\* negative.
C3_PricesFiniteNonNegative ==
    Returned => \A k \in DOMAIN RS : FiniteNonNeg(PyFloat(RS[k].price))

\* C4: every result of a returned list has a non-empty currency, and a result
\* whose extracted record has no currency (missing, empty or null) carries
\* get_currency(country).
C4_CurrencyBackfilled ==
    /\ Returned => \A k \in DOMAIN RS : RS[k].currency # <<>>
    /\ \A i \in DOMAIN results :
          (Succeeded(i) /\ ~Truthy(ProductData(i).currency)) =>
              results[i].currency = get_currency(req_country)

C4_Witness ==
    /\ Returned
    /\ \E i \in DOMAIN results :
          /\ Succeeded(i)
          /\ ~Truthy(ProductData(i).currency)
          /\ InRS(results[i])
          /\ results[i].currency = <<"I", "N", "R">>

\* C5: a returned list is sorted ascending by numeric price.
C5_SortedAscending ==
    Returned => \A k \in 1..(Len(RS) - 1) : FloatLE(PyFloat(RS[k].price), PyFloat(RS[k + 1].price))

\* C6: results of equal numeric price are in the order of their candidates
\* in the candidate list.
C6_TiesKeepCandidateOrder ==
    Returned => \A x, y \in DOMAIN RS :
        (x < y /\ FloatEq(PyFloat(RS[x].price), PyFloat(RS[y].price)))
            => FirstIdx(RS[x]) < FirstIdx(RS[y])

\* C7: no two results of a returned list have the same dedup key (name
\* lower-cased, whitespace removed, first 30 characters; numeric price), and
\* the result kept for a key is the one of the earliest candidate.
KeyName(r) == Prefix(RemoveSpace(Lower(r.productName)), 30)

EqualKeys(a, b) == KeyName(a) = KeyName(b) /\ FloatEq(PyFloat(a.price), PyFloat(b.price))

C7_NoDuplicateKeys ==
    Returned =>
        /\ \A x, y \in DOMAIN RS : x # y => ~EqualKeys(RS[x], RS[y])
        /\ \A x \in DOMAIN RS : \A i \in DOMAIN results :
              (Succeeded(i) /\ EqualKeys(results[i], RS[x])) => FirstIdx(RS[x]) <= i

C7_Witness ==
    /\ Returned
    /\ \E i, j \in DOMAIN results :
          /\ i < j
          /\ Succeeded(i) /\ Succeeded(j)
          /\ results[i].productName # results[j].productName
          /\ Len(RemoveSpace(results[i].productName)) > 30
          /\ EqualKeys(results[i], results[j])
          /\ InRS(results[i]) /\ ~InRS(results[j])

\* C8: a returned list has at most 25 elements, and when more than 25 unique
\* results exist it is the 25 cheapest of them in ascending order.
C8_CapKeepsCheapest ==
    Returned =>
        /\ Len(RS) <= 25
        /\ LET unique == Dedup(Valid(results), <<>>)
           IN  Len(unique) > 25 =>
                  /\ Len(RS) = 25
                  /\ \A k \in 1..(Len(RS) - 1) :
                        FloatLE(PyFloat(RS[k].price), PyFloat(RS[k + 1].price))
                  /\ \A u \in DOMAIN unique : ~InRS(unique[u]) =>
                        \A k \in DOMAIN RS : FloatLE(PyFloat(RS[k].price), PyFloat(unique[u].price))

\* C9: with the input and the response per URL fixed, every call has the
\* same outcome as the first one, whatever the order in which the tasks of
\* either call resolved.
C9_SameOutcomeEveryCall == Done => ret = first

C9_Witness ==
    /\ Returned
    /\ calls = 2
    /\ \E x, y \in DOMAIN RS : x < y /\ FloatEq(PyFloat(RS[x].price), PyFloat(RS[y].price))

\* C10: a candidate resolves with a ProductResult if and only if its fetch
\* succeeded, the extraction steps produced a record and the similarity of
\* the query and the record's productName is at least 0.3.
C10_AcceptanceRule ==
    \A i \in DOMAIN results :
        task[i] = "done" =>
            (Succeeded(i) <=>
                /\ Resp(i).kind = "response"
                /\ Resp(i).status = 200
                /\ ProductData(i).t = "rec"
                /\ MeetsThreshold(get_product_similarity(req_query, ProductData(i).productName.v)))

\* the page of candidate i answered with status 200, so that scrape_site
\* went on to its extraction steps
Extracted(i) == i \in DOMAIN task /\ task[i] = "done" /\ Resp(i).kind = "response" /\ Resp(i).status = HTTP_OK

Url(i) == Site(search_urls[i]).url

\* the outcome of strategy s on the page of candidate i
Out(i, s) == Stepped[Request][SiteIndex(search_urls[i])].out[s]

\* the strategies scrape_site ran on the page of candidate i
Ran(i) == Stepped[Request][SiteIndex(search_urls[i])].ran

\* C11: scrape_site tries the strategies in the fixed order JSON-LD, meta
\* tags, site-specific (Amazon domains only), generic HTML; a strategy runs
\* only if every earlier one returned no record, and the record used is the
\* one of the first strategy that returned one.
C11_StrategiesInFixedOrder ==
    \A i \in 1..N : Extracted(i) =>
        LET order == <<"json_ld", "meta_tags">> \o (IF IsAmazon(Url(i)) THEN <<"amazon">> ELSE <<>>)
                     \o <<"html_patterns">>
            last == Len(Ran(i))
        IN /\ last >= 1
           /\ Ran(i) = Prefix(order, last)
           /\ \A k \in 1..(last - 1) : Out(i, order[k]).t = "null"
           /\ last < Len(order) => Out(i, order[last]).t # "null"
           /\ ProductData(i) = Out(i, order[last])

\* a page without JSON-LD blocks and with meta tags is extracted by the
\* meta-tag strategy, and a page with both by the JSON-LD one
C11_Witness ==
    /\ Returned
    /\ \E i \in 1..N : /\ Extracted(i) /\ Resp(i).page.ld = <<>>
                        /\ Truthy(Resp(i).page.price_amount)
                        /\ Ran(i) = <<"json_ld", "meta_tags">>
                        /\ Succeeded(i) /\ InRS(results[i])
                        /\ results[i].price = Resp(i).page.price_amount.v
    /\ \E i \in 1..N : /\ Extracted(i) /\ Truthy(Resp(i).page.og_title)
                        /\ Truthy(Resp(i).page.price_amount)
                        /\ Ran(i) = <<"json_ld">>
                        /\ Succeeded(i)
                        /\ results[i].price # Resp(i).page.price_amount.v

\* the strategies of scrape_site for candidate i, in the order of its code
Order(i) == Strategies(Url(i))

\* the output of strategy s for candidate i is a record with a non-empty
\* productName and a non-empty price
Complete(i, s) == /\ Out(i, s).t = "rec"
                  /\ Truthy(Out(i, s).productName)
                  /\ Truthy(Out(i, s).price)

\* C12: when no strategy raises, the record that wins is the output of the
\* first strategy, in priority order, whose output has both a non-empty
\* productName and a non-empty price; an output lacking either does not stop
\* the cascade, so without a complete output every strategy is run.
C12_FirstCompleteRecordWins ==
    \A i \in 1..N : (Extracted(i) /\ \A k \in DOMAIN Order(i) : Out(i, Order(i)[k]).t # "raise") =>
        LET complete == {k \in DOMAIN Order(i) : Complete(i, Order(i)[k])}
        IN IF complete # {}
           THEN \E k \in complete : /\ \A j \in complete : k <= j
                                     /\ ProductData(i) = Out(i, Order(i)[k])
           ELSE Ran(i) = Order(i)

\* C13: a JSON-LD block that is malformed or holds no product (invalid JSON,
\* a JSON value that is no object, offers that are no object, a null name)
\* is skipped silently: extract_from_json_ld gives the record of the first
\* block that holds one, and when no block does, scrape_site still runs the
\* meta-tag strategy.
C13_MalformedBlockSkipped ==
    \A i \in 1..N : Extracted(i) =>
        LET blocks == Resp(i).page.ld
            good == {k \in DOMAIN blocks : JsonLdBlock(blocks[k], Url(i)).t = "rec"}
        IN /\ Out(i, "json_ld") = IF good = {} THEN NoRec
                                  ELSE JsonLdBlock(blocks[CHOOSE k \in good : \A j \in good : k <= j], Url(i))
           /\ good = {} => Len(Ran(i)) >= 2 /\ Ran(i)[2] = "meta_tags"

\* the body of the request is malformed: no country or query string, a
\* country code that is not supported, or a query that is empty or blank
Malformed ==
    \/ ~IsStr(request.country) \/ ~IsStr(request.query)
    \/ request.country.v \notin valid_countries
    \/ Strip(request.query.v) = <<>>

\* C14: a /search request with an invalid country code or an invalid (for
\* example empty) query fails with a validation error before any network
\* activity: neither get_search_urls nor fetch_prices is called.
C14_MalformedInputFailsFirst ==
    (sp # "none" /\ Malformed) =>
        /\ trace = <<>>
        /\ sp = "done" => response.status \in {400, 422}

\* positions of the calls of get_search_urls in the trace
UrlCalls == {k \in DOMAIN trace : trace[k].op = "get_search_urls"}

\* fetch_prices is called at most once and every candidate is fetched at
\* most once
NoRetryInFetch ==
    /\ Cardinality({k \in DOMAIN trace : trace[k].op = "fetch_prices"}) <= 1
    /\ \A j, k \in DOMAIN trace : (trace[j].op = "GET" /\ trace[k] = trace[j]) => j = k

Scored == fn_arg.fn = "get_product_similarity" /\ fn_out.done

\* the lower-cased query and product name of the application, the query
\* tokens, and the query tokens with a digit that occur in the product name
QueryLower == Lower(fn_arg.a)

NameLower == Lower(fn_arg.b)

QueryTokens == Tokens(QueryLower)

DigitTokensInName == {t \in QueryTokens : (\E i \in DOMAIN t : IsDigit(t[i])) /\ Contains(NameLower, t)}

Min(a, b) == IF a <= b THEN a ELSE b

\* C15: get_product_similarity returns a value in [0,1]: 0.0 for an empty
\* product name, 1.0 when the lower-cased query is a substring of the
\* lower-cased product name, and otherwise min(1.0, m/|Q| + 0.3*k) with Q the
\* query tokens, m the number of them in the token set of the product name
\* and k the number of digit-containing ones present in the product name
\* (0.0 for a query without tokens, where the quotient is not defined).
C15_SimilarityFormula ==
    Scored =>
        LET sc == fn_out.value.score
            nq == Cardinality(QueryTokens)
            m == Cardinality(QueryTokens \cap Tokens(NameLower))
            k == Cardinality(DigitTokensInName)
        IN /\ sc.d > 0 /\ 0 <= sc.n /\ sc.n <= sc.d
           /\ IF fn_arg.b = <<>> THEN sc.n = 0
              ELSE IF Contains(NameLower, QueryLower) THEN sc.n = sc.d
              ELSE IF nq = 0 THEN sc.n = 0
              ELSE sc.n * 10 * nq = sc.d * Min(10 * nq, 10 * m + 3 * k * nq)

\* a score strictly between 0 and 1 made of a token match and a bonus
C15_Witness ==
    /\ Scored
    /\ ~Contains(NameLower, QueryLower)
    /\ QueryTokens \cap Tokens(NameLower) # {}
    /\ DigitTokensInName # {}
    /\ fn_out.value.score.n * 10 = fn_out.value.score.d * 8

\* the query is no substring of the product name and no query token is a
\* token of the product name
NoOverlap == /\ Scored /\ fn_arg.b # <<>>
             /\ ~Contains(NameLower, QueryLower)
             /\ QueryTokens \cap Tokens(NameLower) = {}

\* C16 as stated: when the query is not a substring of the product name and
\* no query token is in the token set of the product name, the similarity
\* is below 0.3 and the candidate is excluded.
C16_NoOverlapExcluded ==
    NoOverlap => /\ fn_out.value.score.n * 10 < 3 * fn_out.value.score.d
                 /\ ~fn_out.value.kept

\* C16, amended: in that case the similarity is min(1.0, 0.3*k) with k the
\* number of digit-containing query tokens that occur as substrings of the
\* lower-cased product name, and the candidate is excluded exactly when
\* there is no such token.
C16_NoOverlapScoresBonusOnly ==
    NoOverlap => /\ fn_out.value.score.n * 10
                      = fn_out.value.score.d * Min(10, 3 * Cardinality(DigitTokensInName))
                 /\ fn_out.value.kept <=> DigitTokensInName # {}

\* a product name without a token of the query that is kept for a digit
\* token of the query inside one of its words
C16_Witness ==
    /\ NoOverlap
    /\ Cardinality(QueryTokens) = 2
    /\ Cardinality(DigitTokensInName) = 1
    /\ fn_out.value.kept

\* extract_price_from_text was applied
Lexed == fn_arg.fn = "extract_price_from_text" /\ fn_out.done

\* the text has a marker of the currency
MarkerOf(code) ==
    CASE code = "INR" -> \/ Contains(fn_arg.a, <<"<rupee>">>) \/ Contains(fn_arg.a, <<"R", "s">>)
                         \/ Contains(fn_arg.a, <<"I", "N", "R">>)
      [] code = "GBP" -> Contains(fn_arg.a, <<"<pound>">>) \/ Contains(fn_arg.a, <<"G", "B", "P">>)
      [] code = "EUR" -> Contains(fn_arg.a, <<"<euro>">>) \/ Contains(fn_arg.a, <<"E", "U", "R">>)
      [] code = "USD" -> Contains(fn_arg.a, <<"$">>) \/ Contains(fn_arg.a, <<"U", "S", "D">>)

CodeText(code) ==
    CASE code = "INR" -> <<"I", "N", "R">>
      [] code = "GBP" -> <<"G", "B", "P">>
      [] code = "EUR" -> <<"E", "U", "R">>
      [] code = "USD" -> <<"U", "S", "D">>

\* C17: extract_price_from_text returns the numeric token without its
\* thousands separators and the currency of the marker found in the text
\* (<rupee>/Rs/INR: INR, <pound>/GBP: GBP, <euro>/EUR: EUR, $/USD: USD);
\* it returns USD by default only when the text has no currency symbol or
\* code at all, and None when the text has no numeric token.
C17_CurrencyOfMarker ==
    Lexed =>
        LET codes == {"INR", "GBP", "EUR", "USD"}
            found == {c \in codes : MarkerOf(c)}
            out == fn_out.value
        IN /\ (\A i \in DOMAIN fn_arg.a : ~IsDigit(fn_arg.a[i])) => out.t = "null"
           /\ out.t = "pair" =>
                /\ \A i \in DOMAIN out.price : out.price[i] # ","
                /\ \E a, b \in DOMAIN fn_arg.a : RemoveCommas(Slice(fn_arg.a, a, b)) = out.price
                /\ found # {} => \E c \in found : out.currency = CodeText(c)
                /\ (out.currency = USD /\ "USD" \notin found) => found = {}

\* C19: the gather is the only synchronization point of fetch_prices:
\* filtering, de-duplication and sorting start only after every task has
\* resolved, with a result or with None; a task that failed never makes the
\* gather return early and never cancels another task.
C19_GatherWaitsForAll ==
    /\ pc = "gather" => ret = NoOutcome
    /\ Done => /\ ret # NoOutcome
               /\ DOMAIN task = 1..N /\ DOMAIN results = 1..N
               /\ \A i \in 1..N : task[i] = "done" /\ results[i] # Pending
    /\ \A i \in DOMAIN task : (task[i] = "done") <=> (results[i] # Pending)

\* a call that returned the result of one candidate although the task of
\* another candidate failed
C19_Witness ==
    /\ Returned
    /\ \E i, j \in 1..N : /\ Resp(i).kind # "response" /\ results[i] = NoResult
                           /\ Succeeded(j) /\ InRS(results[j])

Fetched(i) ==
    scrape_site(Response(HTTP_OK, Resp(i).page), Url(i), req_query,
                Site(search_urls[i]).name, req_country)

\* C21: a response is an HTTP error (no extraction, no result, the call goes
\* on) exactly when its final status code is outside 200..299; a response
\* with a status in 200..299 is passed to the extraction steps, so its
\* result is the one its page gives.
C21_ErrorExactlyOutside2xx ==
    \A i \in DOMAIN results :
        (task[i] = "done" /\ Resp(i).kind = "response") =>
            /\ Resp(i).status \notin 200..299 => results[i] = NoResult
            /\ Resp(i).status \in 200..299 => results[i] = Fetched(i)

====
